---- MODULE Spec2Model ----
(***************************************************************************)
(* Kent - Indicative Title Mapping.                                        *)
(*                                                                         *)
(* Three Streamlit scripts are modelled side by side:                      *)
(*   "gsheets"  src/app-gsheets.py      semantic matcher (embeddings)      *)
(*   "grok"     src/Backup/app-grok.py  lexical matcher (rapidfuzz)        *)
(*   "app"      src/app.py              form only, no matcher              *)
(* A Streamlit script is re-run from top to bottom on every interaction;   *)
(* one action of the model is one such script run.  st.session_state is    *)
(* the only state that survives between runs of one user session.          *)
(***************************************************************************)
EXTENDS Integers, Sequences, FiniteSets, TLC

VARIABLES variant, load, df, session, prov, run

vars == <<variant, load, df, session, prov, run>>

(***************************************************************************)
(* Bounds of the model.                                                    *)
(***************************************************************************)
\* longest reference table read from the data source when one submission is examined
MaxRows == 4
\* longest reference table read from the data source when whole sessions are examined
SessionRows == 2
\* similarity scores range over (100 - ScoreLevels)..100 (percent)
ScoreLevels == 1

(***************************************************************************)
(* Strings.  A string is a sequence of tokens; the token " " is one        *)
(* whitespace character, every other token is a run of letters.            *)
(***************************************************************************)
SPACE == " "

\* str.lower() on one token
LowerTok(t) ==
    CASE t = "Eng" -> "eng"
      [] t = "ENG" -> "eng"
      [] t = "Mgr" -> "mgr"
      [] t = "Hse" -> "hse"
      [] OTHER -> t

\* str.lower()
Lower(s) == [i \in 1..Len(s) |-> LowerTok(s[i])]

RECURSIVE LStrip(_)
LStrip(s) ==
    IF s = <<>> THEN s
    ELSE IF Head(s) = SPACE THEN LStrip(Tail(s)) ELSE s

RECURSIVE RStrip(_)
RStrip(s) ==
    IF s = <<>> THEN s
    ELSE IF s[Len(s)] = SPACE THEN RStrip(SubSeq(s, 1, Len(s) - 1)) ELSE s

\* str.strip()
Strip(s) == RStrip(LStrip(s))

\* the clean_title column: .str.strip().str.lower()
CleanTitle(s) == Lower(Strip(s))

(***************************************************************************)
(* The data source: present or not, its header (raw column names) and its  *)
(* rows.  A row names the cells that are empty (NaN) in `na`.              *)
(***************************************************************************)
CJT == "Client Job Title"

required == {"Client Job Title", "Position Title", "Grade", "Country", "Job Code"}

\* a header cell as the file spells it: the name itself, or padded with blanks
Exact(c) == <<c>>
Padded(c) == <<SPACE, c>>

GoodHeader == {Exact(c) : c \in required}

Headers ==
    {GoodHeader}
    \cup {GoodHeader \ {Exact(c)} : c \in required}
    \cup {(GoodHeader \ {Exact(c)}) \cup {Padded(c)} : c \in required}

RowPool ==
    { [na |-> {}, cjt |-> <<SPACE, "Eng">>, pos |-> "Engineer", grade |-> "L1",
       country |-> "India", code |-> "J1"],
      [na |-> {}, cjt |-> <<"Mgr">>, pos |-> "Manager", grade |-> "L2",
       country |-> "Iraq", code |-> "J2"],
      [na |-> {CJT}, cjt |-> <<>>, pos |-> "Unknown", grade |-> "L1",
       country |-> "India", code |-> "J3"] }

\* the reference tables: up to maxrows rows, at least one of them titled
Tables(maxrows) ==
    {t \in UNION {[1..n -> RowPool] : n \in 1..maxrows} :
        \E i \in 1..Len(t) : CJT \notin t[i].na}

\* what the form can submit
Queries == {<<>>, <<SPACE>>, <<"ENG", SPACE>>, <<"Hse">>}
ALL == "All"
Scores == (100 - ScoreLevels)..100

\* Python's None in a session field
NONE == "<None>"

(***************************************************************************)
(* DataFrames.  A frame row carries its index label and its cells; a frame *)
(* keeps its column order.  None is the session's "no results yet".        *)
(***************************************************************************)
None == [isNone |-> TRUE, cols |-> <<>>, rows |-> <<>>]

Frame(cols, rows) == [isNone |-> FALSE, cols |-> cols, rows |-> rows]

\* df.reset_index(drop=True): labels become 0..n-1
ResetIndex(rows) == [i \in 1..Len(rows) |-> [rows[i] EXCEPT !.label = i - 1]]

\* pd.read_csv / pd.read_excel: rows labelled 0..N-1 in file order
ReadRows(raw) ==
    [i \in 1..Len(raw) |->
        [label |-> i - 1, na |-> raw[i].na, cjt |-> raw[i].cjt, pos |-> raw[i].pos,
         grade |-> raw[i].grade, country |-> raw[i].country, code |-> raw[i].code,
         clean |-> <<>>]]

\* df.columns.str.strip()
StripColumns(header) == {Strip(c) : c \in header}

\* df["clean_title"] = df["Client Job Title"].str.strip().str.lower()
WithCleanTitle(rows) ==
    [i \in 1..Len(rows) |-> [rows[i] EXCEPT !.clean = CleanTitle(rows[i].cjt)]]

Loaded(status, msgs, colsRead, rows) ==
    [status |-> status, msgs |-> msgs, colsRead |-> colsRead, rows |-> rows]

\* app-gsheets.py load_data
load_data_gsheets(src) ==
    IF ~src.present
    THEN Loaded("exception", {}, FALSE, <<>>)          \* st.secrets / read_csv raises
    ELSE
      LET read == ReadRows(src.rows)
          \* line 32: dropna(how='all').reset_index(drop=True)
          d1 == ResetIndex(SelectSeq(read, LAMBDA r : r.na # required))
      IN  IF Exact(CJT) \notin src.header
          THEN Loaded("exception", {}, FALSE, <<>>)    \* line 33: KeyError
          ELSE
            LET \* line 33: notna() & (str.strip() != "")
                d2 == SelectSeq(d1, LAMBDA r : CJT \notin r.na /\ Strip(r.cjt) # <<>>)
                cols == StripColumns(src.header)
            IN  IF ~(\A c \in required : Exact(c) \in cols)
                THEN Loaded("halt", {"error"}, TRUE, <<>>)      \* lines 37-39
                ELSE Loaded("ok", {}, TRUE, ResetIndex(WithCleanTitle(d2)))

\* Backup/app-grok.py load_data
load_data_grok(src) ==
    IF ~src.present
    THEN Loaded("halt", {"error"}, FALSE, <<>>)        \* lines 23-27
    ELSE
      LET read == ReadRows(src.rows)
          cols == StripColumns(src.header)
          missing == {c \in required : Exact(c) \notin cols}
      IN  IF missing # {}
          THEN Loaded("halt", {"error"}, FALSE, <<>>)  \* lines 40-42
          ELSE
            \* line 45: dropna(subset=["Client Job Title"]) keeps the labels
            LET d == SelectSeq(read, LAMBDA r : CJT \notin r.na)
            IN  Loaded("ok", {}, TRUE, WithCleanTitle(d))

(***************************************************************************)
(* Filtering.                                                              *)
(***************************************************************************)
\* the country selection is not applied
FilterGsheets_GradeOnly(rows, g, c) ==
    IF g # ALL THEN SelectSeq(rows, LAMBDA r : r.grade = g) ELSE rows

\* app-gsheets.py lines 92-96: boolean indexing, one filter after the other
FilterGsheets(rows, g, c) ==
    LET f1 == IF g # ALL THEN SelectSeq(rows, LAMBDA r : r.grade = g) ELSE rows
    IN  IF c # ALL THEN SelectSeq(f1, LAMBDA r : r.country = c) ELSE f1

Labels(rows) == {rows[i].label : i \in 1..Len(rows)}

\* pd.Series([True] * len(df)): a Series indexed 0..len-1
TrueMask(rows) == [l \in 0..(Len(rows) - 1) |-> TRUE]

\* df[col] == value: a boolean Series indexed by the labels of df
EqSeries(rows, col, v) ==
    [l \in Labels(rows) |->
        LET r == CHOOSE x \in {rows[i] : i \in 1..Len(rows)} : x.label = l
        IN  IF col = "Grade" THEN r.grade = v ELSE r.country = v]

\* mask &= other: the operands are aligned on their labels (a label missing on
\* one side counts as False) and the result is reindexed like mask
AndInplace(mask, other) ==
    [l \in DOMAIN mask |-> mask[l] /\ (IF l \in DOMAIN other THEN other[l] ELSE FALSE)]

\* Backup/app-grok.py lines 95-99
BuildMask(rows, g, c) ==
    LET m0 == TrueMask(rows)
        m1 == IF g # ALL THEN AndInplace(m0, EqSeries(rows, "Grade", g)) ELSE m0
    IN  IF c # ALL THEN AndInplace(m1, EqSeries(rows, "Country", c)) ELSE m1

\* df[mask] raises IndexingError ("Unalignable boolean Series provided as
\* indexer") when a label of df is missing from the index of mask
Unalignable(rows, mask) == \E l \in Labels(rows) : l \notin DOMAIN mask

\* df[mask] when the mask can be aligned
GetItemBool(rows, mask) == SelectSeq(rows, LAMBDA r : mask[r.label])

(***************************************************************************)
(* Scoring and ranking.  The similarity of each candidate is an input      *)
(* (the library's); sc[i] is the score of the i-th filtered row.           *)
(***************************************************************************)
\* the first min(3, n) items instead: p[:3]
Last3Reversed_First3(p) ==
    LET n == Len(p)
        k == IF n < 3 THEN n ELSE 3
    IN  [i \in 1..k |-> p[i]]

\* the last min(3, n) items of a sequence, reversed: p[-3:][::-1]
Last3Reversed(p) ==
    LET n == Len(p)
        k == IF n < 3 THEN n ELSE 3
    IN  [i \in 1..k |-> p[n + 1 - i]]

\* np.argsort(sc): the positions in ascending order of score; the order of
\* equal scores is not fixed by the default sort kind
RECURSIVE AscendingOrders(_, _)
AscendingOrders(sc, S) ==
    IF S = {} THEN {<<>>}
    ELSE UNION {{<<i>> \o rest : rest \in AscendingOrders(sc, S \ {i})} :
                   i \in {x \in S : \A y \in S : sc[x] <= sc[y]}}

Argsorts(sc) == AscendingOrders(sc, 1..Len(sc))

\* rank of position i under process.extract: higher score first, then
\* earlier position
Before(sc, i, j) == sc[i] > sc[j] \/ (sc[i] = sc[j] /\ i < j)

\* process.extract(query, choices, limit=3): positions of the best 3
Extract(sc, limit) ==
    LET n == Len(sc)
        k == IF n < limit THEN n ELSE limit
        rank(i) == Cardinality({j \in 1..n : Before(sc, j, i)}) + 1
    IN  [r \in 1..k |-> CHOOSE i \in 1..n : rank(i) = r]

\* the literal "100%"
Exact100 == [num |-> 100, decimals |-> 0]

\* f"{score:.1%}" / f"{score:.1f}%": the score with one decimal place
FormatScore(score) == [num |-> score, decimals |-> 1]

display_cols_gsheets ==
    <<"Client Job Title", "Position Title", "Grade", "Country", "Job Code", "Probability">>

display_cols_grok ==
    <<"Position Title", "Grade", "Country", "Job Code", "Probability">>

\* one cell of a result row
Cell(r, prob, col) ==
    CASE col = "Client Job Title" -> r.cjt
      [] col = "Position Title" -> r.pos
      [] col = "Grade" -> r.grade
      [] col = "Country" -> r.country
      [] col = "Job Code" -> r.code
      [] col = "Probability" -> prob

\* results[cols]: a result row keeps its label and the selected columns
ResultRow(r, prob, cols) ==
    [label |-> r.label,
     data |-> [c \in {cols[i] : i \in 1..Len(cols)} |-> Cell(r, prob, c)]]

\* app-gsheets.py lines 113-125
MatchGsheets(filtered, query, sc, p) ==
    LET top_idx == Last3Reversed(p)
        \* line 120: rows of the top 3 whose clean_title is the lowered query
        isExact(i) == filtered[top_idx[i]].clean = Lower(query)
        prob(i) == IF isExact(i) THEN Exact100 ELSE FormatScore(sc[top_idx[i]])
    IN  Frame(display_cols_gsheets,
              ResetIndex([i \in 1..Len(top_idx) |->
                  ResultRow(filtered[top_idx[i]], prob(i), display_cols_gsheets)]))

\* Backup/app-grok.py lines 104-123
MatchGrok(filtered, query, sc) ==
    LET exact_matches == SelectSeq(filtered, LAMBDA r : r.clean = query)
    IN  IF exact_matches # <<>>
        THEN Frame(display_cols_grok,
                   [i \in 1..Len(exact_matches) |->
                       ResultRow(exact_matches[i], Exact100, display_cols_grok)])
        ELSE
          LET indices == Extract(sc, 3)
          IN  Frame(display_cols_grok,
                    ResetIndex([i \in 1..Len(indices) |->
                        ResultRow(filtered[indices[i]], FormatScore(sc[indices[i]]),
                                  display_cols_grok)]))

(***************************************************************************)
(* Session state and the record of the last script run.                    *)
(***************************************************************************)
\* the block under `if "submitted" not in st.session_state`
InitSession ==
    [submitted |-> FALSE, client_role |-> <<>>, results |-> None,
     dropdown1_selection |-> NONE, dropdown2_selection |-> NONE]

NoReq == [query |-> <<>>, grade |-> NONE, country |-> NONE]

NoTable == [isNone |-> TRUE, cols |-> <<>>, cells |-> <<>>]
NoCsv == [isNone |-> TRUE, lines |-> <<>>]

\* nothing of the results section was rendered
NoShow ==
    [section |-> FALSE, header |-> <<>>, msgs |-> {}, table |-> NoTable,
     csv |-> NoCsv, button |-> FALSE]

IdleRun ==
    [kind |-> "none", query |-> <<>>, req |-> NoReq, scores |-> <<>>,
     outcome |-> "done", msgs |-> {}, filtered |-> FALSE, scored |-> FALSE,
     stored |-> FALSE, shown |-> NoShow]

Variants == {"gsheets", "grok", "app"}

Init ==
    /\ variant \in Variants
    /\ load = [status |-> "boot", present |-> FALSE, header |-> {}, msgs |-> {},
               colsRead |-> FALSE, nread |-> 0]
    /\ df = <<>>
    /\ session = InitSession
    /\ prov = [role |-> NoReq, results |-> NoReq]
    /\ run = IdleRun

Sources(maxrows) == [present : BOOLEAN, header : Headers, rows : Tables(maxrows)]

FirstRun(src, l) ==
    /\ load' = [status |-> l.status, present |-> src.present,
                header |-> IF l.status = "ok" THEN StripColumns(src.header) ELSE src.header,
                msgs |-> l.msgs, colsRead |-> l.colsRead,
                nread |-> IF src.present THEN Len(src.rows) ELSE 0]
    /\ df' = l.rows
    /\ session' = InitSession
    /\ run' = [IdleRun EXCEPT !.kind = "first",
                              !.outcome = IF l.status = "ok" THEN "done"
                                          ELSE IF l.status = "halt" THEN "stopped"
                                          ELSE "exception",
                              !.msgs = l.msgs]
    /\ UNCHANGED <<variant, prov>>

\* first run of app-gsheets.py: load_data, session defaults, empty form
LoadGsheets(maxrows) ==
    /\ variant = "gsheets" /\ load.status = "boot"
    /\ \E src \in Sources(maxrows) : FirstRun(src, load_data_gsheets(src))

\* first run of Backup/app-grok.py
LoadGrok(maxrows) ==
    /\ variant = "grok" /\ load.status = "boot"
    /\ \E src \in Sources(maxrows) : FirstRun(src, load_data_grok(src))

\* first run of app.py: no data is loaded, only the session defaults are set
StartApp ==
    /\ variant = "app" /\ load.status = "boot"
    /\ load' = [load EXCEPT !.status = "ok"]
    /\ session' = InitSession
    /\ run' = [IdleRun EXCEPT !.kind = "first"]
    /\ UNCHANGED <<variant, df, prov>>

(***************************************************************************)
(* The results section.                                                    *)
(***************************************************************************)
\* st.dataframe(results, hide_index=True): the columns and the cells, no labels
Render(frame) ==
    [isNone |-> FALSE, cols |-> frame.cols,
     cells |-> [i \in 1..Len(frame.rows) |->
                   [j \in 1..Len(frame.cols) |-> frame.rows[i].data[frame.cols[j]]]]]

\* results.to_csv() with the default index=True: the labels lead every line
to_csv_with_index(frame) ==
    [isNone |-> FALSE,
     lines |-> <<<<"">> \o frame.cols>> \o
               [i \in 1..Len(frame.rows) |->
                   <<frame.rows[i].label>> \o
                   [j \in 1..Len(frame.cols) |-> frame.rows[i].data[frame.cols[j]]]]]

\* results.to_csv(index=False): a header line, then one line per row
to_csv(frame) ==
    [isNone |-> FALSE,
     lines |-> <<frame.cols>> \o
               [i \in 1..Len(frame.rows) |->
                   [j \in 1..Len(frame.cols) |-> frame.rows[i].data[frame.cols[j]]]]]

FirstProbability(frame) == frame.rows[1].data["Probability"]

\* app-gsheets.py lines 128-147 (the button is handled by NewSearchGsheets)
DisplayGsheets(sess) ==
    IF ~sess.submitted THEN NoShow
    ELSE IF ~sess.results.isNone /\ Len(sess.results.rows) > 0
    THEN [section |-> TRUE, header |-> sess.client_role,
          msgs |-> IF FirstProbability(sess.results) = Exact100
                   THEN {"success"} ELSE {"info"},
          table |-> Render(sess.results), csv |-> to_csv(sess.results),
          button |-> TRUE]
    ELSE [section |-> TRUE, header |-> sess.client_role, msgs |-> {"warning"},
          table |-> NoTable, csv |-> NoCsv, button |-> TRUE]

\* Backup/app-grok.py lines 126-155 (the button is handled by ClearGrok)
DisplayGrok(sess) ==
    IF ~sess.submitted THEN NoShow
    ELSE IF ~sess.results.isNone
    THEN [section |-> TRUE, header |-> sess.client_role,
          msgs |-> IF Len(sess.results.rows) > 0
                      /\ FirstProbability(sess.results) = Exact100
                   THEN {"success"} ELSE {"info"},
          table |-> Render(sess.results), csv |-> to_csv(sess.results),
          button |-> TRUE]
    ELSE [section |-> TRUE, header |-> sess.client_role, msgs |-> {},
          table |-> NoTable, csv |-> NoCsv, button |-> TRUE]

\* app.py lines 79-101: the selections are echoed, there is no result table
DisplayApp(sess) ==
    IF ~sess.submitted THEN NoShow
    ELSE [section |-> TRUE, header |-> sess.client_role, msgs |-> {},
          table |-> NoTable, csv |-> NoCsv, button |-> TRUE]

(***************************************************************************)
(* Script runs.                                                            *)
(***************************************************************************)
GradesOf(rows) == {rows[i].grade : i \in 1..Len(rows)}
CountriesOf(rows) == {rows[i].country : i \in 1..Len(rows)}

\* the hard-coded option lists of app.py and app-grok.py (abridged)
grade_options == {"L1", "L2"}
country_options == {"India", "Iraq"}

\* a run that reached the end of the script
Completed(kind, q, req, sc, msgs, filtered, scored, stored, shown) ==
    [kind |-> kind, query |-> q, req |-> req, scores |-> sc, outcome |-> "done",
     msgs |-> msgs \cup shown.msgs, filtered |-> filtered, scored |-> scored,
     stored |-> stored, shown |-> shown]

\* a run cut short by st.stop() or by an exception: nothing below is rendered
Aborted(q, req, outcome, msgs, filtered) ==
    [kind |-> "submit", query |-> q, req |-> req, scores |-> <<>>, outcome |-> outcome,
     msgs |-> msgs, filtered |-> filtered, scored |-> FALSE, stored |-> FALSE,
     shown |-> NoShow]

\* the role is stored before it is validated
Rejected_StoresRole(q, shown) ==
    /\ session' = [session EXCEPT !.submitted = TRUE, !.client_role = q]
    /\ prov' = prov
    /\ run' = Completed("submit", q, NoReq, <<>>, {"error"}, FALSE, FALSE, FALSE, shown)

\* the form was submitted with an empty client role: st.error, no session write
Rejected(q, shown) ==
    /\ session' = session
    /\ prov' = prov
    /\ run' = Completed("submit", q, NoReq, <<>>, {"error"}, FALSE, FALSE, FALSE, shown)

\* app-gsheets.py lines 83-147 for one submission of the form
SubmitGsheets ==
    /\ variant = "gsheets" /\ load.status = "ok"
    /\ \E q \in Queries, g \in {ALL} \cup GradesOf(df), c \in {ALL} \cup CountriesOf(df) :
         IF Strip(q) = <<>>
         THEN Rejected(q, DisplayGsheets(session))
         ELSE
           LET query == Strip(q)
               req == [query |-> query, grade |-> g, country |-> c]
               s1 == [session EXCEPT !.submitted = TRUE, !.client_role = query]
               filtered_df == FilterGsheets(df, g, c)
           IN  IF filtered_df = <<>>
               THEN \* lines 98-100: st.warning, st.stop
                    /\ session' = s1
                    /\ prov' = [prov EXCEPT !.role = req]
                    /\ run' = Aborted(q, req, "stopped", {"warning"}, TRUE)
               ELSE \E sc \in [1..Len(filtered_df) -> Scores] :
                    \E p \in Argsorts(sc) :
                      LET s2 == [s1 EXCEPT !.results = MatchGsheets(filtered_df, query, sc, p)]
                      IN  /\ session' = s2
                          /\ prov' = [role |-> req, results |-> req]
                          /\ run' = Completed("submit", q, req, sc, {}, TRUE, TRUE, TRUE,
                                              DisplayGsheets(s2))
    /\ UNCHANGED <<variant, load, df>>

\* Backup/app-grok.py lines 85-155 for one submission of the form
SubmitGrok ==
    /\ variant = "grok" /\ load.status = "ok"
    /\ \E q \in Queries, g \in {ALL} \cup grade_options, c \in {ALL} \cup country_options :
         IF Strip(q) = <<>>
         THEN Rejected(q, DisplayGrok(session))
         ELSE
           LET query == Lower(Strip(q))
               req == [query |-> Strip(q), grade |-> g, country |-> c]
               s1 == [session EXCEPT !.submitted = TRUE, !.client_role = Strip(q)]
               mask == BuildMask(df, g, c)
           IN  IF Unalignable(df, mask)
               THEN \* line 101 raises: the run ends with the traceback, after
                    \* lines 89-90 have written the session
                    /\ session' = s1
                    /\ prov' = [prov EXCEPT !.role = req]
                    /\ run' = Aborted(q, req, "exception", {}, FALSE)
               ELSE
                 LET filtered_df == GetItemBool(df, mask)
                 IN  \E sc \in [1..Len(filtered_df) -> Scores] :
                       LET res == MatchGrok(filtered_df, query, sc)
                           s2 == [s1 EXCEPT !.results = res]
                           scored == ~(\E i \in 1..Len(filtered_df) :
                                          filtered_df[i].clean = query)
                       IN  /\ session' = s2
                           /\ prov' = [role |-> req, results |-> req]
                           /\ run' = Completed("submit", q, req,
                                               IF scored THEN sc ELSE <<>>, {}, TRUE,
                                               scored, TRUE, DisplayGrok(s2))
    /\ UNCHANGED <<variant, load, df>>

\* app.py lines 68-101 for one submission of the form
SubmitApp ==
    /\ variant = "app" /\ load.status = "ok"
    /\ \E q \in Queries, dropdown1 \in {"None"} \cup grade_options,
          dropdown2 \in {"None"} \cup country_options :
         IF Strip(q) # <<>>
         THEN LET s1 == [session EXCEPT
                            !.submitted = TRUE,
                            !.client_role = q,
                            !.dropdown1_selection =
                                IF dropdown1 # "None" THEN dropdown1 ELSE NONE,
                            !.dropdown2_selection =
                                IF dropdown2 # "None" THEN dropdown2 ELSE NONE]
                  req == [query |-> q, grade |-> dropdown1, country |-> dropdown2]
              IN  /\ session' = s1
                  /\ prov' = [prov EXCEPT !.role = req]
                  /\ run' = Completed("submit", q, req, <<>>, {}, FALSE, FALSE, FALSE,
                                      DisplayApp(s1))
         ELSE Rejected(q, DisplayApp(session))
    /\ UNCHANGED <<variant, load, df>>

\* a click on the download button re-runs the script without a submission
Rerun(shown) ==
    /\ run.shown.csv.isNone = FALSE
    /\ run' = Completed("download", <<>>, NoReq, <<>>, {}, FALSE, FALSE, FALSE, shown)
    /\ UNCHANGED <<variant, load, df, session, prov>>

DownloadGsheets == variant = "gsheets" /\ Rerun(DisplayGsheets(session))

DownloadGrok == variant = "grok" /\ Rerun(DisplayGrok(session))

\* the reset button: the session fields go back to their defaults and
\* st.rerun() starts the script again
Reset ==
    /\ run.shown.button
    /\ session' = InitSession
    /\ prov' = [role |-> NoReq, results |-> NoReq]
    /\ run' = [IdleRun EXCEPT !.kind = "reset"]
    /\ UNCHANGED <<variant, load, df>>

\* app-gsheets.py lines 145-147: session_state.clear(), then the defaults again
NewSearchGsheets == variant = "gsheets" /\ Reset

\* Backup/app-grok.py lines 151-155
ClearGrok == variant = "grok" /\ Reset

\* app.py lines 96-101
ClearApp == variant = "app" /\ Reset

(***************************************************************************)
(* Spec: whole sessions (any sequence of submissions, downloads and        *)
(* resets) over reference tables of at most SessionRows rows.              *)
(***************************************************************************)
Next ==
    \/ LoadGsheets(SessionRows)
    \/ LoadGrok(SessionRows)
    \/ StartApp
    \/ SubmitGsheets
    \/ SubmitGrok
    \/ SubmitApp
    \/ DownloadGsheets
    \/ DownloadGrok
    \/ NewSearchGsheets
    \/ ClearGrok
    \/ ClearApp

Spec == Init /\ [][Next]_vars

(***************************************************************************)
(* SpecMatch: the first submission of a session over reference tables of   *)
(* at most MaxRows rows.  What a submission stores depends on the table    *)
(* and on the form's inputs only, not on the session's earlier contents.   *)
(***************************************************************************)
FirstSubmitGsheets == run.kind = "first" /\ SubmitGsheets

FirstSubmitGrok == run.kind = "first" /\ SubmitGrok

NextMatch ==
    \/ LoadGsheets(MaxRows)
    \/ LoadGrok(MaxRows)
    \/ FirstSubmitGsheets
    \/ FirstSubmitGrok

SpecMatch == Init /\ [][NextMatch]_vars

(***************************************************************************)
(* Vocabulary of the properties.                                           *)
(***************************************************************************)
Matcher == variant \in {"gsheets", "grok"}

\* the last run was a submission whose query is non-empty after trimming
ValidSubmit == run.kind = "submit" /\ Strip(run.query) # <<>>

\* the last run was a submission whose query is empty after trimming
BlankSubmit(r) == r.kind = "submit" /\ Strip(r.query) = <<>>

SatisfiesFilters(grade, country, g, c) ==
    /\ (g # ALL => grade = g)
    /\ (c # ALL => country = c)

\* the rows of the reference table that pass the filters of the last submission
Passing ==
    SelectSeq(df, LAMBDA r : SatisfiesFilters(r.grade, r.country,
                                              run.req.grade, run.req.country))

NormQuery == Lower(Strip(run.query))

\* the passing rows whose normalized title is the normalized query
ExactPassing == SelectSeq(Passing, LAMBDA r : Lower(Strip(r.cjt)) = NormQuery)

StoredRows == session.results.rows

Probability(i) == StoredRows[i].data["Probability"]

CommonCols == {"Position Title", "Grade", "Country", "Job Code"}

\* result row i shows the reference row r
ShowsRow(i, r) == \A col \in CommonCols : StoredRows[i].data[col] = Cell(r, Exact100, col)

Min(a, b) == IF a < b THEN a ELSE b

Injections(k, n) == {t \in [1..k -> 1..n] : \A i, j \in 1..k : i # j => t[i] # t[j]}

(***************************************************************************)
(* C1.  A valid submission in either matcher, with a passing row whose     *)
(* normalized title equals the normalized query: the first row of the      *)
(* result it stores has Probability "100%", whatever the scores.           *)
(***************************************************************************)
C1_ExactMatchIsTop ==
    (Matcher /\ ValidSubmit /\ run.stored /\ ExactPassing # <<>>)
        => /\ Len(StoredRows) >= 1
           /\ Probability(1) = Exact100

(***************************************************************************)
(* C2.  With at least one exactly matching passing row, the result a       *)
(* submission stores is exactly the exactly matching passing rows, each at *)
(* "100%", and no similarity-ranked row beside them.                       *)
(***************************************************************************)
C2_ExactMatchesReplaceRanked ==
    (Matcher /\ ValidSubmit /\ run.stored /\ ExactPassing # <<>>)
        => /\ Len(StoredRows) = Len(ExactPassing)
           /\ \A i \in 1..Len(StoredRows) :
                 ShowsRow(i, ExactPassing[i]) /\ Probability(i) = Exact100

(***************************************************************************)
(* C3.  Every row of the result that a submission stores satisfies the     *)
(* selected grade and the selected country.                                *)
(***************************************************************************)
C3_ResultWithinFilters ==
    (Matcher /\ run.stored)
        => \A i \in 1..Len(StoredRows) :
              SatisfiesFilters(StoredRows[i].data["Grade"], StoredRows[i].data["Country"],
                               run.req.grade, run.req.country)

\* a filtered submission over a table from which the loader dropped a row and
\* which holds rows outside the selection
C3_Witness ==
    /\ Matcher /\ run.stored
    /\ run.req.grade # ALL /\ run.req.country # ALL
    /\ Len(StoredRows) >= 1
    /\ Len(Passing) < Len(df)
    /\ Len(df) < load.nread

(***************************************************************************)
(* C4.  The result a submission stores has at most 3 rows and at most as   *)
(* many rows as pass the filters.                                          *)
(***************************************************************************)
C4_AtMostThree ==
    (Matcher /\ run.stored)
        => /\ Len(StoredRows) <= 3
           /\ Len(StoredRows) <= Len(Passing)

C6_BlankQueryChangesNothing ==
    [][BlankSubmit(run')
          => /\ session' = session
             /\ "error" \in run'.msgs
             /\ ~run'.filtered /\ ~run'.scored /\ ~run'.stored]_vars

\* a blank submission on a session that already holds results
C6_Witness ==
    /\ BlankSubmit(run)
    /\ session.submitted
    /\ ~session.results.isNone /\ Len(StoredRows) >= 1

(***************************************************************************)
(* C7.  A valid submission whose filters leave no row ends with a warning, *)
(* without an exception, and presents no matched row.                      *)
(***************************************************************************)
C7_NoRowsWarns ==
    (Matcher /\ ValidSubmit /\ Passing = <<>>)
        => /\ "warning" \in run.msgs
           /\ run.outcome # "exception"
           /\ (run.shown.table.isNone \/ run.shown.table.cells = <<>>)

(***************************************************************************)
(* C8.  With the data source absent, or a required column missing after    *)
(* trimming the column names, the loader shows an error and halts before   *)
(* any column is read; it does not raise.                                  *)
(***************************************************************************)
BadSource ==
    \/ ~load.present
    \/ \E c \in required : Exact(c) \notin StripColumns(load.header)

C8_LoaderHaltsWithError ==
    (Matcher /\ load.status # "boot" /\ BadSource)
        => /\ load.status = "halt"
           /\ "error" \in load.msgs
           /\ ~load.colsRead

(***************************************************************************)
(* C9.  Whenever the results section shows the stored role with a result   *)
(* table, that table was stored by the submission that stored the role.    *)
(***************************************************************************)
C9_ShownResultBelongsToRole ==
    (Matcher /\ run.shown.section /\ ~run.shown.table.isNone)
        => /\ run.shown.header = session.client_role
           /\ prov.results = prov.role

(***************************************************************************)
(* C10.  In every run that renders results, the CSV offered for download   *)
(* has the columns of the displayed table as its header line and the       *)
(* displayed rows, in order, as its lines; both are the stored result.     *)
(***************************************************************************)
C10_CsvMatchesTable ==
    (~run.shown.table.isNone \/ ~run.shown.csv.isNone)
        => /\ ~run.shown.table.isNone /\ ~run.shown.csv.isNone
           /\ ~session.results.isNone
           /\ run.shown.csv.lines = <<run.shown.table.cols>> \o run.shown.table.cells
           /\ run.shown.table.cols = session.results.cols
           /\ Len(run.shown.table.cells) = Len(StoredRows)
           /\ \A i \in 1..Len(StoredRows) : \A j \in 1..Len(session.results.cols) :
                 run.shown.table.cells[i][j] = StoredRows[i].data[session.results.cols[j]]

\* a re-run after a download click that renders two or more result rows
C10_Witness ==
    /\ run.kind = "download"
    /\ ~run.shown.table.isNone
    /\ Len(run.shown.table.cells) >= 2
    /\ Len(run.shown.csv.lines) >= 3

====
